---- MODULE Spec2Model ----
(***************************************************************************)
(* Model of src/server.js: the POST /api/analyze handler and analyzeQuote. *)
(*                                                                         *)
(* A completion text is a sequence of one-character strings over Alphabet. *)
(* The letter "k" abbreviates the member prefix  "a":  of a JSON object    *)
(* (a string key and its colon), "x" is any character that starts no JSON  *)
(* value (commentary), " " is white space.  A parsed JSON value is held as *)
(* its canonical text (what JSON.stringify prints): white space dropped.   *)
(***************************************************************************)
EXTENDS Integers, Sequences, FiniteSets

\* ------------------------------------------------------------ bounds
\* Longest completion text of the per-item specification SpecItem.
MaxLen == 5
\* Longest completion text the API returns in the request-level
\* specifications Spec and SpecStub.
StubLen == 1
\* Longest `quotes` array of a request.
MaxQuotes == 3

\* ------------------------------------------------------------ texts
Alphabet == {"{", "}", "k", "0", "1", "x", " "}
\* The request-level specifications draw texts over these letters only: the
\* handler reads a text through the analysis it yields and nothing else.
StubAlphabet == {"0", "1", "x"}
Digits == {"0", "1"}

\* Every text over the letters A of length at most n, the empty text included.
RECURSIVE Texts(_, _)
Texts(A, n) ==
  IF n = 0 THEN {<<>>}
  ELSE LET shorter == Texts(A, n - 1)
       IN  shorter \cup {Append(t, c) : t \in {u \in shorter : Len(u) = n - 1}, c \in A}

\* String.prototype.indexOf / lastIndexOf for a one-character needle:
\* the 0-based position of the first / last occurrence, -1 when there is none.
indexOf(s, c) ==
  IF \E i \in 1..Len(s) : s[i] = c
  THEN (CHOOSE i \in 1..Len(s) : s[i] = c /\ \A j \in 1..(i - 1) : s[j] # c) - 1
  ELSE -1
lastIndexOf(s, c) ==
  IF \E i \in 1..Len(s) : s[i] = c
  THEN (CHOOSE i \in 1..Len(s) : s[i] = c /\ \A j \in (i + 1)..Len(s) : s[j] # c) - 1
  ELSE -1
\* content.substring(from, to) with 0-based from <= to: characters from..to-1.
substring(s, from, to) == SubSeq(s, from + 1, to)

\* ------------------------------------------------------------ JSON.parse
RECURSIVE SkipWs(_)
SkipWs(s) == IF s # <<>> /\ Head(s) = " " THEN SkipWs(Tail(s)) ELSE s

RECURSIVE DigitRun(_)
DigitRun(s) == IF s # <<>> /\ Head(s) \in Digits THEN 1 + DigitRun(Tail(s)) ELSE 0

ParseFail == [ok |-> FALSE, val |-> <<>>, rest |-> <<>>]

\* A number: "0" alone, or a nonzero digit followed by digits (no leading zero).
ParseNumber(s) ==
  IF Head(s) = "0"
  THEN [ok |-> TRUE, val |-> <<"0">>, rest |-> Tail(s)]
  ELSE LET n == DigitRun(s)
       IN  [ok |-> TRUE, val |-> SubSeq(s, 1, n), rest |-> SubSeq(s, n + 1, Len(s))]

\* One JSON value at the head of s (white space before it already skipped).
RECURSIVE ParseValue(_)
ParseValue(s) ==
  IF s = <<>> THEN ParseFail
  ELSE IF Head(s) \in Digits THEN ParseNumber(s)
  ELSE IF Head(s) = "{" THEN
    LET t == SkipWs(Tail(s))
    IN  IF t = <<>> THEN ParseFail
        ELSE IF Head(t) = "}" THEN [ok |-> TRUE, val |-> <<"{", "}">>, rest |-> Tail(t)]
        ELSE IF Head(t) = "k" THEN
          LET v == ParseValue(SkipWs(Tail(t)))
              u == SkipWs(v.rest)
          IN  IF v.ok /\ u # <<>> /\ Head(u) = "}"
              THEN [ok |-> TRUE, val |-> <<"{", "k">> \o v.val \o <<"}">>, rest |-> Tail(u)]
              ELSE ParseFail
        ELSE ParseFail
  ELSE ParseFail

\* JSON.parse(text): the value, or a SyntaxError (ok = FALSE) when the text
\* is not exactly one JSON value with optional white space around it.
JSONparse(text) ==
  LET r == ParseValue(SkipWs(text))
  IN  IF r.ok /\ SkipWs(r.rest) = <<>>
      THEN [ok |-> TRUE, val |-> r.val]
      ELSE [ok |-> FALSE, val |-> <<>>]

\* ------------------------------------------------------------ requests
\* Elements of `quotes`.  "a" and "b" are strings.  Unprintable is the JSON
\* object {"toString":1}: its own toString property is not callable, so
\* converting it to a string (the template literal of line 48) throws a
\* TypeError.
Unprintable == "{toString:1}"
PrintableQuotes == {"a", "b"}
Quotes == PrintableQuotes \cup {Unprintable}
CanStringify(quote) == quote # Unprintable

\* req.body.quotes: any JSON value, or undefined when the field is absent.
FalsyKinds == {"undefined", "null", "false", "zero", "emptystring"}
OtherKinds == {"true", "number", "string", "object"}
RECURSIVE Arrays(_)
Arrays(n) ==
  IF n = 0 THEN {<<>>}
  ELSE LET shorter == Arrays(n - 1)
       IN  shorter \cup {Append(t, q) : t \in {u \in shorter : Len(u) = n - 1}, q \in Quotes}
QuotesFields ==
  {[kind |-> k, elems |-> <<>>] : k \in FalsyKinds \cup OtherKinds}
    \cup {[kind |-> "array", elems |-> e] : e \in Arrays(MaxQuotes)}
NoRequest == [kind |-> "undefined", elems |-> <<>>]

\* Mutant of IsInvalid: the check of line 88 without its length test.
IsInvalidNoLengthTest(q) ==
  q.kind \in FalsyKinds \/ q.kind # "array"

\* Line 88: !quotes || !Array.isArray(quotes) || quotes.length === 0
IsInvalid(q) ==
  q.kind \in FalsyKinds \/ q.kind # "array" \/ Len(q.elems) = 0

\* Line 92: quotes.slice(0, 2)
slice(elems, from, to) ==
  SubSeq(elems, from + 1, IF to < Len(elems) THEN to ELSE Len(elems))

\* ------------------------------------------------------------ the API
\* What openai.chat.completions.create does for one call: it rejects, or it
\* resolves with a response whose first choice has no content (present is
\* FALSE) or has the text `text`.
ApiRejects == [rejects |-> TRUE, present |-> FALSE, text |-> <<>>]
ApiNoContent == [rejects |-> FALSE, present |-> FALSE, text |-> <<>>]
ApiText(t) == [rejects |-> FALSE, present |-> TRUE, text |-> t]
ApiOutcomes(texts) == {ApiRejects, ApiNoContent} \cup {ApiText(t) : t \in texts}
StubOutcomes == ApiOutcomes(Texts(StubAlphabet, StubLen))
ItemOutcomes == ApiOutcomes(Texts(Alphabet, MaxLen))

\* ------------------------------------------------------------ analyzeQuote
\* null, the value analyzeQuote returns from its catch block; no JSON text of
\* the alphabet parses to it.
NULL == <<"null">>
\* JavaScript truthiness of what analyzeQuote returns (line 96): null and the
\* number 0 are falsy, every object and every other number is truthy.
Truthy(v) == v # NULL /\ v # <<"0">>

NoError == "none"
ApiError == "APIError"
EmptyError == "Empty response from OpenAI"
SyntaxError == "SyntaxError"

\* Mutant of FallbackText: substring(firstBrace, lastBrace), the closing brace
\* left out.
FallbackTextExclusive(content) ==
  substring(content, indexOf(content, "{"), lastIndexOf(content, "}"))

\* Lines 69-72: the text the fallback parses.
FallbackText(content) ==
  substring(content, indexOf(content, "{"), lastIndexOf(content, "}") + 1)

\* Lines 52-78, the try block once the call has settled with outcome o:
\* the value returned, or the error thrown.  `fallback` tells whether the
\* second JSON.parse (line 73) ran.
TryBlock(o) ==
  IF o.rejects
  THEN [threw |-> TRUE, error |-> ApiError, parsed |-> NULL, fallback |-> FALSE]
  ELSE IF ~o.present \/ o.text = <<>>
  THEN [threw |-> TRUE, error |-> EmptyError, parsed |-> NULL, fallback |-> FALSE]
  ELSE
    LET content == o.text
        strict == JSONparse(content)
        firstBrace == indexOf(content, "{")
        lastBrace == lastIndexOf(content, "}")
    IN  IF strict.ok
        THEN [threw |-> FALSE, error |-> NoError, parsed |-> strict.val, fallback |-> FALSE]
        ELSE IF firstBrace >= 0 /\ lastBrace > firstBrace
        THEN LET again == JSONparse(FallbackText(content))
             IN  IF again.ok
                 THEN [threw |-> FALSE, error |-> NoError, parsed |-> again.val,
                       fallback |-> TRUE]
                 ELSE [threw |-> TRUE, error |-> SyntaxError, parsed |-> NULL,
                       fallback |-> TRUE]
        ELSE [threw |-> TRUE, error |-> SyntaxError, parsed |-> NULL, fallback |-> FALSE]

\* Lines 51-82: what analyzeQuote returns once its call has settled, and what
\* it logs (line 80).
analyzeQuote(o) ==
  LET t == TryBlock(o)
  IN  IF t.threw
      THEN [analysis |-> NULL, logged |-> t.error, fallback |-> t.fallback]
      ELSE [analysis |-> t.parsed, logged |-> NoError, fallback |-> t.fallback]

\* ------------------------------------------------------------ the handler
NoValue == <<>>
NoMessage == ""
FailedMessage == "Failed to analyze quote"
BadRequestMessage == "Please provide an array of quotes."
ServerErrorMessage == "Internal Server Error"

\* Lines 96-100: the entry pushed for one quote.  `detail` is the error
\* analyzeQuote caught and logged; the handler receives null only, and the
\* failure entry carries the fixed message.
SuccessEntry(quote, analysis) ==
  [quote |-> quote, analysis |-> analysis, error |-> NoMessage]
\* Mutant of FailureEntry: the error that was caught is returned to the caller.
LeakyFailureEntry(quote, detail) ==
  [quote |-> quote, analysis |-> NoValue, error |-> detail]
FailureEntry(quote, detail) ==
  [quote |-> quote, analysis |-> NoValue, error |-> FailedMessage]
Entry(quote, r) ==
  IF Truthy(r.analysis) THEN SuccessEntry(quote, r.analysis)
  ELSE FailureEntry(quote, r.logged)

\* A response: status 0 stands for no response sent.
NoResponse == [status |-> 0, error |-> NoMessage, hasResults |-> FALSE, results |-> <<>>]
BadRequest == [status |-> 400, error |-> BadRequestMessage, hasResults |-> FALSE, results |-> <<>>]
ServerError == [status |-> 500, error |-> ServerErrorMessage, hasResults |-> FALSE, results |-> <<>>]
Ok(rs) == [status |-> 200, error |-> NoMessage, hasResults |-> TRUE, results |-> rs]

\* What the build does with the rejected promise of the async handler, which
\* nothing in server.js catches: Express 4 leaves the request unanswered
\* ("hang"), and under a Node that ends the process on an unhandled rejection
\* the server is gone ("exit"); Express 5 passes the error to its default
\* error handler, which answers 500 ("error500").
Builds == {"hang", "exit", "error500"}

VARIABLES
  onReject,       \* the build's treatment of a rejected handler
  alive,          \* the process is running
  pc,             \* where the handler of the current request stands
  quotes,         \* req.body.quotes of the current request
  limitedQuotes,  \* line 92
  results,        \* line 93
  idx,            \* 1-based position in limitedQuotes of the loop of line 94
  response,       \* what has been sent for the current request
  outcomes,       \* per retained item, what its API call did (history)
  calls,          \* per position of quotes, the API calls issued (history)
  inflight,       \* API calls issued and not yet settled
  logged,         \* what the last analyzeQuote logged (line 80)
  fallback,       \* whether the last analyzeQuote ran the second parse
  stub,           \* SpecStub: the deterministic stub's answers given so far
  round,          \* SpecStub: how many times the request was issued
  first           \* SpecStub: the response to the first issue

vars == <<onReject, alive, pc, quotes, limitedQuotes, results, idx, response,
          outcomes, calls, inflight, logged, fallback, stub, round, first>>
stubVars == <<stub, round, first>>

\* Mutant of EmptyResults: one results array shared by every request.
SharedResults == results
\* Line 93: const results = []
EmptyResults == <<>>

Unasked == [rejects |-> FALSE, present |-> FALSE, text |-> <<"unasked">>]
NoCalls == [i \in 1..MaxQuotes |-> 0]
Done == {"responded", "crashed"}

Init ==
  /\ onReject \in Builds
  /\ alive = TRUE
  /\ pc = "idle"
  /\ quotes = NoRequest
  /\ limitedQuotes = <<>>
  /\ results = <<>>
  /\ idx = 0
  /\ response = NoResponse
  /\ outcomes = <<>>
  /\ calls = NoCalls
  /\ inflight = 0
  /\ logged = NoError
  /\ fallback = FALSE
  /\ stub = [q \in PrintableQuotes |-> Unasked]
  /\ round = 0
  /\ first = NoResponse

\* Lines 86-87: a request arrives and a new invocation of the handler starts.
Arrive(q) ==
  /\ alive
  /\ pc \in {"idle"} \cup Done
  /\ pc' = "validate"
  /\ quotes' = q
  /\ limitedQuotes' = <<>>
  /\ results' = EmptyResults
  /\ idx' = 0
  /\ response' = NoResponse
  /\ outcomes' = <<>>
  /\ calls' = NoCalls
  /\ inflight' = 0
  /\ logged' = NoError
  /\ fallback' = FALSE
  /\ UNCHANGED <<onReject, alive>>

Receive ==
  /\ alive
  /\ pc \in {"idle"} \cup Done
  /\ \E q \in QuotesFields : Arrive(q)
  /\ UNCHANGED stubVars

\* Lines 88-90.
Reject400 ==
  /\ pc = "validate"
  /\ IsInvalid(quotes)
  /\ response' = BadRequest
  /\ pc' = "responded"
  /\ UNCHANGED <<onReject, alive, quotes, limitedQuotes, results, idx, outcomes,
                 calls, inflight, logged, fallback, stub, round, first>>

\* Lines 92-94.
Accept ==
  /\ pc = "validate"
  /\ ~IsInvalid(quotes)
  /\ limitedQuotes' = slice(quotes.elems, 0, 2)
  /\ results' = EmptyResults
  /\ idx' = 1
  /\ pc' = "loop"
  /\ UNCHANGED <<onReject, alive, quotes, response, outcomes, calls, inflight,
                 logged, fallback, stub, round, first>>

\* Line 94: the loop has a next quote.
HasNext == idx <= Len(limitedQuotes)

\* Mutant of IssueCall: the calls of all retained quotes are issued at once
\* and joined afterwards.
IssueAllCalls ==
  /\ pc = "loop"
  /\ HasNext
  /\ CanStringify(limitedQuotes[idx])
  /\ calls' = [i \in 1..MaxQuotes |-> IF i <= Len(limitedQuotes) THEN 1 ELSE calls[i]]
  /\ inflight' = Len(limitedQuotes)
  /\ pc' = "await"
  /\ UNCHANGED <<onReject, alive, quotes, limitedQuotes, results, idx, response,
                 outcomes, logged, fallback, stub, round, first>>

\* Lines 95, 40-58: analyzeQuote builds its prompt and issues the call.
IssueCall ==
  /\ pc = "loop"
  /\ HasNext
  /\ CanStringify(limitedQuotes[idx])
  /\ calls' = [calls EXCEPT ![idx] = @ + 1]
  /\ inflight' = inflight + 1
  /\ pc' = "await"
  /\ UNCHANGED <<onReject, alive, quotes, limitedQuotes, results, idx, response,
                 outcomes, logged, fallback, stub, round, first>>

\* Lines 95, 40-50: the template literal of line 48 throws before the try
\* block is entered; analyzeQuote's promise rejects, the await of line 95
\* throws and the handler's promise rejects.
PromptThrows ==
  /\ pc = "loop"
  /\ HasNext
  /\ ~CanStringify(limitedQuotes[idx])
  /\ pc' = "crashed"
  /\ alive' = (onReject # "exit")
  /\ response' = IF onReject = "error500" THEN ServerError ELSE NoResponse
  /\ UNCHANGED <<onReject, quotes, limitedQuotes, results, idx, outcomes, calls,
                 inflight, logged, fallback, stub, round, first>>

\* Lines 52-82 and 95-100: the call settles with outcome o, analyzeQuote
\* returns and the handler pushes the entry.
Settle(o) ==
  /\ pc = "await"
  /\ LET r == analyzeQuote(o)
     IN  /\ results' = Append(results, Entry(limitedQuotes[idx], r))
         /\ logged' = r.logged
         /\ fallback' = r.fallback
  /\ outcomes' = Append(outcomes, o)
  /\ inflight' = inflight - 1
  /\ idx' = idx + 1
  /\ pc' = "loop"
  /\ UNCHANGED <<onReject, alive, quotes, limitedQuotes, response, calls>>

\* The API answers as it likes.
ApiSettles ==
  /\ pc = "await"
  /\ \E o \in StubOutcomes : Settle(o)
  /\ UNCHANGED stubVars

\* Line 102.
Respond ==
  /\ pc = "loop"
  /\ ~HasNext
  /\ response' = Ok(results)
  /\ pc' = "responded"
  /\ UNCHANGED <<onReject, alive, quotes, limitedQuotes, results, idx, outcomes,
                 calls, inflight, logged, fallback, stub, round, first>>

Next ==
  \/ Receive
  \/ Reject400
  \/ Accept
  \/ IssueCall
  \/ PromptThrows
  \/ ApiSettles
  \/ Respond

Spec == Init /\ [][Next]_vars

\* ------------------------------------------------------------ SpecItem
\* One analyzeQuote call over every completion text of length at most
\* MaxLen: the handler stands at the await of line 95 for a request of one
\* printable quote (a state Spec reaches by Receive, Accept, IssueCall).
InitItem ==
  /\ onReject \in Builds
  /\ alive = TRUE
  /\ pc = "await"
  /\ \E q \in PrintableQuotes :
       /\ quotes = [kind |-> "array", elems |-> <<q>>]
       /\ limitedQuotes = <<q>>
  /\ results = <<>>
  /\ idx = 1
  /\ response = NoResponse
  /\ outcomes = <<>>
  /\ calls = [NoCalls EXCEPT ![1] = 1]
  /\ inflight = 1
  /\ logged = NoError
  /\ fallback = FALSE
  /\ stub = [q \in PrintableQuotes |-> Unasked]
  /\ round = 0
  /\ first = NoResponse

ItemSettles ==
  /\ pc = "await"
  /\ \E o \in ItemOutcomes : Settle(o)
  /\ UNCHANGED stubVars

NextItem ==
  \/ ItemSettles
  \/ Respond

SpecItem == InitItem /\ [][NextItem]_vars

\* ------------------------------------------------------------ SpecStub
\* The same request issued twice against a deterministic stub of the API:
\* the stub's answer for a quote is chosen when the quote is first asked and
\* is the same ever after.
ReceiveFirst ==
  /\ round = 0
  /\ pc = "idle"
  /\ \E q \in QuotesFields : Arrive(q)
  /\ round' = 1
  /\ UNCHANGED <<stub, first>>

Reissue ==
  /\ round = 1
  /\ pc \in Done
  /\ Arrive(quotes)
  /\ round' = 2
  /\ first' = response
  /\ UNCHANGED stub

StubAnswersNew ==
  /\ pc = "await"
  /\ stub[limitedQuotes[idx]] = Unasked
  /\ \E o \in StubOutcomes :
       /\ Settle(o)
       /\ stub' = [stub EXCEPT ![limitedQuotes[idx]] = o]
  /\ UNCHANGED <<round, first>>

StubAnswersAgain ==
  /\ pc = "await"
  /\ stub[limitedQuotes[idx]] # Unasked
  /\ Settle(stub[limitedQuotes[idx]])
  /\ UNCHANGED stubVars

NextStub ==
  \/ ReceiveFirst
  \/ Reissue
  \/ Reject400
  \/ Accept
  \/ IssueCall
  \/ PromptThrows
  \/ StubAnswersNew
  \/ StubAnswersAgain
  \/ Respond

SpecStub == Init /\ [][NextStub]_vars

\* ------------------------------------------------------------ claims
Min(a, b) == IF a < b THEN a ELSE b
IsArrayOfSome(q) == q.kind = "array" /\ Len(q.elems) >= 1
Retained == Min(Len(quotes.elems), 2)

\* C1: a request whose `quotes` is absent, not an array or an empty array is
\* answered 400 with the fixed message; no completion call is issued for it
\* and no results array is produced.
C1_InvalidGets400 ==
  (pc # "idle" /\ ~IsArrayOfSome(quotes)) =>
     /\ pc \in {"validate", "responded"}
     /\ calls = NoCalls /\ inflight = 0 /\ outcomes = <<>>
     /\ limitedQuotes = <<>> /\ results = <<>>
     /\ pc = "responded" =>
          response = [status |-> 400, error |-> "Please provide an array of quotes.",
                      hasResults |-> FALSE, results |-> <<>>]
C1_Witness ==
  /\ pc = "responded" /\ response.status = 400
  /\ quotes.kind = "array" /\ quotes.elems = <<>>

\* C2: every request whose `quotes` is an array of N >= 1 elements ends with
\* results of length min(N, 2) whose quote fields are the first min(N, 2)
\* elements of `quotes`, in order.
C2_ResultsFollowQuotes ==
  (pc \in Done /\ IsArrayOfSome(quotes)) =>
     /\ response.hasResults
     /\ Len(response.results) = Retained
     /\ \A i \in 1..Retained : response.results[i].quote = quotes.elems[i]

\* C3: analyzeQuote never rejects past its own boundary, whatever the quote:
\* no request ends with the handler's promise rejected instead of a response.
C3_NeverRejects == pc # "crashed"

\* C4: when the completion call of an item rejects, the request is still
\* answered 200 with results, that item's entry is the failure entry, and
\* every entry is what its own quote and its own call's outcome give.
C4_RejectionIsIsolated ==
  (pc \in Done /\ \E i \in 1..Len(outcomes) : outcomes[i].rejects) =>
     /\ response.status = 200
     /\ response.hasResults
     /\ Len(response.results) = Len(limitedQuotes)
     /\ Len(outcomes) = Len(limitedQuotes)
     /\ \A i \in 1..Len(outcomes) :
          /\ outcomes[i].rejects =>
               response.results[i] =
                 [quote |-> limitedQuotes[i], analysis |-> NoValue,
                  error |-> "Failed to analyze quote"]
          /\ response.results[i] = Entry(limitedQuotes[i], analyzeQuote(outcomes[i]))

\* C7: over a whole request with N >= 1 quotes exactly one completion call
\* is issued for each of the first min(N, 2) quotes and none for any other.
C7_OneCallPerRetained ==
  /\ \A i \in 1..MaxQuotes : calls[i] <= 1 /\ (i > 2 => calls[i] = 0)
  /\ (pc \in Done /\ IsArrayOfSome(quotes)) =>
       \A i \in 1..MaxQuotes : calls[i] = (IF i <= Retained THEN 1 ELSE 0)

\* C10: items are analysed one after the other: at most one call is in
\* flight, the call for an item is issued only once every earlier item has
\* its entry, and results are sent only when every retained item has one.
C10_Sequential ==
  /\ inflight <= 1
  /\ inflight = 1 <=> pc = "await"
  /\ \A i \in 1..MaxQuotes : calls[i] > 0 => Len(results) >= i - 1
  /\ pc = "await" => Len(results) = idx - 1 /\ calls[idx] = 1
  /\ response.hasResults =>
       /\ inflight = 0
       /\ Len(response.results) = Retained
       /\ \A i \in 1..Retained : calls[i] = 1
C10_Witness ==
  /\ pc = "await" /\ idx = 2 /\ Len(results) = 1 /\ calls[2] = 1

\* The item-level claims read the one item SpecItem analyses: its quote, the
\* text the API returned for it and the entry pushed for it.
Settled == Len(outcomes) = 1 /\ Len(results) = 1
ItemText == outcomes[1].text
HasText == ~outcomes[1].rejects /\ outcomes[1].present /\ ItemText # <<>>
\* The text has a `{` followed later by a `}`.
HasBracePair ==
  \E i, j \in 1..Len(ItemText) : i < j /\ ItemText[i] = "{" /\ ItemText[j] = "}"
\* The text from its first `{` to its last `}`, both included.
Braced ==
  LET i == CHOOSE m \in 1..Len(ItemText) :
             ItemText[m] = "{" /\ \A n \in 1..(m - 1) : ItemText[n] # "{"
      j == CHOOSE m \in 1..Len(ItemText) :
             ItemText[m] = "}" /\ \A n \in (m + 1)..Len(ItemText) : ItemText[n] # "}"
  IN  SubSeq(ItemText, i, j)
StrictOk == JSONparse(ItemText).ok
BracedOk == HasBracePair /\ JSONparse(Braced).ok
FailureOf(q) == [quote |-> q, analysis |-> NoValue, error |-> "Failed to analyze quote"]

\* C5 as stated: a non-empty text with no brace pair, or whose strict parse
\* fails and whose braced substring fails to parse too, gives exactly the
\* entry {quote, error: "Failed to analyze quote"}.
C5_AsStated ==
  (Settled /\ HasText /\ (~HasBracePair \/ (~StrictOk /\ ~BracedOk))) =>
     results[1] = FailureOf(limitedQuotes[1])

\* C5 amended: a non-empty text whose strict parse fails, and which has no
\* brace pair or whose braced substring fails to parse too, gives exactly
\* the entry {quote, error: "Failed to analyze quote"}; the SyntaxError is
\* logged and is not in the entry.
C5_ParseFailureEntry ==
  (Settled /\ HasText /\ ~StrictOk /\ (~HasBracePair \/ ~BracedOk)) =>
     /\ results[1] = FailureOf(limitedQuotes[1])
     /\ logged = SyntaxError
C5_Witness ==
  /\ Settled /\ ItemText = <<"x", "{", "x", "}">>
  /\ fallback /\ results[1].error = "Failed to analyze quote"

\* C6: the second parse runs exactly when the strict parse of a non-empty
\* text fails and the text has a brace pair, never when the strict parse
\* succeeds; when the braced substring is valid JSON the item's analysis is
\* the value of that substring alone.
C6_FallbackRecovers ==
  Settled =>
     /\ fallback <=> (HasText /\ ~StrictOk /\ HasBracePair)
     /\ (HasText /\ ~StrictOk /\ BracedOk) =>
          results[1] = [quote |-> limitedQuotes[1], analysis |-> JSONparse(Braced).val,
                        error |-> NoMessage]
C6_Witness ==
  /\ Settled /\ ItemText = <<"x", "{", "k", "1", "}">>
  /\ fallback /\ results[1].analysis = <<"{", "k", "1", "}">>

\* C9: a non-empty text that parses as JSON, strictly or through its braced
\* substring, gives the entry {quote, analysis} with the parsed value; the
\* failure entry comes only from an API error, absent or empty content, or
\* both parses failing.
C9_ParsedIsSuccess ==
  Settled =>
     /\ (HasText /\ StrictOk) =>
          results[1] = [quote |-> limitedQuotes[1], analysis |-> JSONparse(ItemText).val,
                        error |-> NoMessage]
     /\ (HasText /\ ~StrictOk /\ BracedOk) =>
          results[1] = [quote |-> limitedQuotes[1], analysis |-> JSONparse(Braced).val,
                        error |-> NoMessage]
     /\ results[1].error # NoMessage =>
          (~HasText \/ (~StrictOk /\ ~BracedOk))

\* C8: the same request issued twice against a deterministic stub gets the
\* same response, status and results, both times.
C8_SameResponseTwice ==
  (round = 2 /\ pc \in Done) => response = first
C8_Witness ==
  /\ round = 2 /\ pc = "responded" /\ response.status = 200
  /\ Len(response.results) = 2
  /\ response.results[1].error = NoMessage
  /\ response.results[2].error = "Failed to analyze quote"

====
